---- MODULE Spec2Model ----
(***************************************************************************)
(* Subbook (src/src/subbook.rs): the index table parser                    *)
(* Indices::read_from, the facade Subbook::from_io / Subbook::read_text    *)
(* and the text stream decoder read_text, over a seekable byte stream.     *)
(*                                                                         *)
(* Unsigned 32-bit quantities and stream positions are kept as two 16-bit  *)
(* limbs <<hi, lo>> (value = hi * 65536 + lo), so that the u32 arithmetic  *)
(* of the code keeps its width.  Bytes are the integers 0..255.            *)
(***************************************************************************)
EXTENDS Integers, Sequences, FiniteSets, TLC

VARIABLES
    data,               \* the container's bytes (the stream's content)
    pos,                \* the stream cursor, <<hi, lo>>
    pc,                 \* where the caller / the running operation is
    n_indices,          \* Indices::read_from: the count byte (u8)
    i,                  \* Indices::read_from: the loop variable (u8)
    ics,                \* Indices::read_from: the Indices being built
    indices,            \* Subbook.indices, <<>> while no Subbook exists
    page,               \* Subbook::read_text: argument page (u32 limbs)
    offset,             \* Subbook::read_text: argument offset (u16)
    started_at,         \* read_text: io.tell() at entry
    text,               \* read_text: the Vec<TextElement> being built
    is_narrow,          \* read_text: narrow mode flag
    delimiter_keyword,  \* read_text: Option<u16>, <<>> or <<k>>
    brk,                \* read_text: which break left the loop
    result,             \* what the last finished operation returned
    elems_at,           \* Text::to_plaintext: elements the iterator has passed
    out                 \* Text::to_plaintext: the String being built

vars == <<data, pos, pc, n_indices, i, ics, indices, page, offset,
          started_at, text, is_narrow, delimiter_keyword, brk, result,
          elems_at, out>>

(***************************************************************************)
(* Bounds of the explored inputs.                                          *)
(***************************************************************************)
\* free index records at the front of a generated index table
MaxFreeEntries == 2
\* tokens in a generated text run
MaxChunks == 3

(***************************************************************************)
(* Fixed-width integers.                                                   *)
(***************************************************************************)
W8 == 256
W16 == 65536

\* a small natural number as limbs
U32(n) == <<n \div W16, n % W16>>

\* limbs + small natural, no wrap (stream positions are i64)
PosAdd(p, k) == <<p[1] + (p[2] + k) \div W16, (p[2] + k) % W16>>

\* u32 wrapping subtraction of one
U32Dec(p) ==
    IF p[2] > 0 THEN <<p[1], p[2] - 1>>
    ELSE IF p[1] > 0 THEN <<p[1] - 1, W16 - 1>>
    ELSE <<W16 - 1, W16 - 1>>

\* u32 wrapping multiplication by 0x800
U32Mul800(p) == <<(p[1] * 2048 + p[2] \div 32) % W16, (p[2] % 32) * 2048>>

\* u32 wrapping addition of a u16
U32AddU16(p, k) == <<(p[1] + (p[2] + k) \div W16) % W16, (p[2] + k) % W16>>

(***************************************************************************)
(* The stream: Reader + Seek over the bytes of data.                       *)
(***************************************************************************)
\* bytes left from position p
Avail(d, p) == IF p[1] = 0 /\ p[2] < Len(d) THEN Len(d) - p[2] ELSE 0

\* Reader::read_exact(k) and the fixed-size reads built on it: all k bytes,
\* or an error with the cursor past whatever was there
ReadBytes(d, p, k) ==
    IF Avail(d, p) >= k
    THEN [ok |-> TRUE, bytes |-> SubSeq(d, p[2] + 1, p[2] + k), pos |-> PosAdd(p, k)]
    ELSE [ok |-> FALSE, bytes |-> <<>>, pos |-> PosAdd(p, Avail(d, p))]

\* Reader::read_u8
ReadU8(d, p) ==
    LET r == ReadBytes(d, p, 1)
    IN  [ok |-> r.ok, val |-> IF r.ok THEN r.bytes[1] ELSE 0, pos |-> r.pos]

\* ReadBeU16 taking a single byte
ReadBeU16OneByte(d, p) ==
    LET r == ReadBytes(d, p, 1)
    IN  [ok |-> r.ok, val |-> IF r.ok THEN r.bytes[1] ELSE 0, pos |-> r.pos]

\* Reader::read_be_u16
ReadBeU16(d, p) ==
    LET r == ReadBytes(d, p, 2)
    IN  [ok |-> r.ok, val |-> IF r.ok THEN r.bytes[1] * W8 + r.bytes[2] ELSE 0,
         pos |-> r.pos]

\* Reader::read_be_u32, as limbs
ReadBeU32(d, p) ==
    LET r == ReadBytes(d, p, 4)
    IN  [ok |-> r.ok,
         val |-> IF r.ok THEN <<r.bytes[1] * W8 + r.bytes[2],
                                r.bytes[3] * W8 + r.bytes[4]>>
                 ELSE <<0, 0>>,
         pos |-> r.pos]

(***************************************************************************)
(* Results.                                                                *)
(***************************************************************************)
NoIndices == [menu |-> <<>>, copyright |-> <<>>]

Res(kind) == [kind |-> kind, code |-> 0, text |-> <<>>, ics |-> NoIndices]
NoResult == Res("None")
IoErr == Res("Io")
InvalidControlCode(cc) == [Res("InvalidControlCode") EXCEPT !.code = cc]
OkText(t) == [Res("Text") EXCEPT !.text = t]
OkIndices(x) == [Res("Indices") EXCEPT !.ics = x]

(***************************************************************************)
(* Indices::read_from.                                                     *)
(***************************************************************************)
\* SeekCount relative to the cursor (SeekCur for SeekSet)
SeekCountFromCursor(p) == PosAdd(p, 1)

\* io.seek(1, SeekSet): the cursor after the seek, from cursor p
SeekCount(p) == U32(1)

\* io.seek(4, SeekSet)
SeekGlobalAvail(p) == U32(4)

\* (16 + i * 16) with i: u8, so the sum is a u8
EntryOffset(k) == (16 + k * 16) % W8

\* io.seek((16 + i * 16) as i64, SeekSet)
SeekEntry(p, k) == U32(EntryOffset(k))

\* ReadEntry without the try! on the reads of the two bytes it does not keep
ReadEntryKeptOnly(d, p) ==
    LET index_id   == ReadU8(d, p)
        reserved   == ReadBytes(d, index_id.pos, 1)
        start_page == ReadBeU32(d, reserved.pos)
        page_count == ReadBeU32(d, start_page.pos)
        avail      == ReadU8(d, page_count.pos)
    IN  [ok  |-> index_id.ok /\ start_page.ok /\ page_count.ok,
         index_id |-> index_id.val,
         loc |-> [page |-> start_page.val, length |-> page_count.val],
         pos |-> avail.pos]

\* the five reads of one record, each from where the previous one stopped
ReadEntry(d, p) ==
    LET index_id   == ReadU8(d, p)
        reserved   == ReadBytes(d, index_id.pos, 1)
        start_page == ReadBeU32(d, reserved.pos)
        page_count == ReadBeU32(d, start_page.pos)
        avail      == ReadU8(d, page_count.pos)
    IN  [ok  |-> index_id.ok /\ reserved.ok /\ start_page.ok /\ page_count.ok
                 /\ avail.ok,
         index_id |-> index_id.val,
         loc |-> [page |-> start_page.val, length |-> page_count.val],
         pos |-> avail.pos]

\* Dispatch whose default arm stores the location as copyright
DispatchDefaultStores(x, index_id, loc) ==
    CASE index_id = 1 -> [x EXCEPT !.menu = <<loc>>]
      [] OTHER -> [x EXCEPT !.copyright = <<loc>>]

\* match index_id { 0x01 => menu, 0x02 => copyright, _ => () }
Dispatch(x, index_id, loc) ==
    CASE index_id = 1 -> [x EXCEPT !.menu = <<loc>>]
      [] index_id = 2 -> [x EXCEPT !.copyright = <<loc>>]
      [] OTHER -> x

(***************************************************************************)
(* Subbook::read_text: the seek target.                                    *)
(***************************************************************************)
\* ((page - 1) * 0x800 + offset as u32) as i64, computed in u32
TextPosition(pg, off) == U32AddU16(U32Mul800(U32Dec(pg)), off)

\* SeekText relative to the cursor (SeekCur for SeekSet)
SeekTextFromCursor(p, pg, off) ==
    <<p[1] + TextPosition(pg, off)[1] + (p[2] + TextPosition(pg, off)[2]) \div W16,
      (p[2] + TextPosition(pg, off)[2]) % W16>>

\* self.io.seek(.. as i64, SeekSet): the cursor after the seek, from cursor p
SeekText(p, pg, off) == TextPosition(pg, off)

(***************************************************************************)
(* read_text: the text stream decoder.                                     *)
(***************************************************************************)
UnicodeString(s) == [tag |-> "UnicodeString", s |-> s, code |-> 0]
CustomCharacter(cp) == [tag |-> "CustomCharacter", s |-> <<>>, code |-> cp]
Newline == [tag |-> "Newline", s |-> <<>>, code |-> 0]

\* jis0208::decode_codepoint: <<scalar>> or <<>>; 0x2422 is U+3042, 0x2341 is
\* U+FF21 and 0x242c is U+304C, every other code of the explored inputs has no
\* mapping
decode_codepoint(cp) ==
    CASE cp = 9250 -> <<12354>>
      [] cp = 9025 -> <<65313>>
      [] cp = 9260 -> <<12364>>
      [] OTHER -> <<>>

\* unicode::char::width(ch, true): the mapped scalars are wide
width(ch) == IF ch \in {12354, 12364, 65313} THEN 2 ELSE 1

\* unicode::char::decompose_compatible: the scalars handed to the callback, in
\* order (U+FF21 -> U+0041; U+304C -> U+304B U+3099)
decompose_compatible(ch) ==
    CASE ch = 65313 -> <<65>>
      [] ch = 12364 -> <<12363, 12441>>
      [] OTHER -> <<ch>>

\* if is_narrow { if let Some(2) = width(ch, true) { decompose(ch, |c| ch = c) } }
NarrowChar(narrow, ch) ==
    IF narrow /\ width(ch) = 2
    THEN decompose_compatible(ch)[Len(decompose_compatible(ch))]
    ELSE ch

\* PushChar without the test of the last element: every character opens a
\* new string
PushCharNoCoalesce(t, ch) == Append(t, UnicodeString(<<ch>>))

\* PushChar looking for the most recent string anywhere in the vector
PushCharEarlier(t, ch) ==
    LET ks == { k \in 1..Len(t) : t[k].tag = "UnicodeString" }
    IN  IF ks # {}
        THEN LET k == CHOOSE k \in ks : \A j \in ks : j <= k
             IN  [t EXCEPT ![k] = UnicodeString(Append(t[k].s, ch))]
        ELSE Append(t, UnicodeString(<<ch>>))

\* if let Some(&UnicodeString(ref mut s)) = text.last_mut() { s.push(ch) }
\* else { text.push(UnicodeString(String::from_char(1, ch))) }
PushChar(t, ch) ==
    IF Len(t) > 0 /\ t[Len(t)].tag = "UnicodeString"
    THEN [t EXCEPT ![Len(t)] = UnicodeString(Append(t[Len(t)].s, ch))]
    ELSE Append(t, UnicodeString(<<ch>>))

\* IsNextEntry stopping at any keyword once a delimiter is recorded
IsNextEntryAnyKeyword(delim, keyword) == delim # <<>>

\* IsNextEntry with the stop test dropped
IsNextEntryNever(delim, keyword) == FALSE

\* delimiter_keyword == Some(keyword)
IsNextEntry(delim, keyword) == delim = <<keyword>>

\* else if delimiter_keyword.is_none() { delimiter_keyword = Some(keyword) }
\* RecordKeyword keeping the latest keyword instead of the first
RecordKeywordLatest(delim, keyword) == <<keyword>>

RecordKeyword(delim, keyword) == IF delim = <<>> THEN <<keyword>> ELSE delim

\* ReadFailed going on with the next pass from where the read stopped
ReadFailedIgnored(st, p) == [st EXCEPT !.pos = p]

\* ReadFailed taking the end of the stream for the end of the text
ReadFailedAsEnd(st, p) == [st EXCEPT !.how = "break", !.pos = p]

\* try!(io.read_..()) on a failed read: return Err(Io(..)), cursor at p
ReadFailed(st, p) == [st EXCEPT !.how = "return", !.pos = p, !.err = IoErr]

\* ControlError reporting the byte that was matched first
ControlErrorMarker(marker, cc) == InvalidControlCode(marker)

\* cc => return Err(InvalidControlCode(cc)), after the marker byte
ControlError(marker, cc) == InvalidControlCode(cc)

\* Skip leaving a Newline behind
SkipAsNewline(st, p) == [st EXCEPT !.pos = p, !.text = Append(st.text, Newline)]

\* 0x02 => (), 0x61 => (): only the cursor has moved
Skip(st, p) == [st EXCEPT !.pos = p]

\* one pass of the loop body from cursor p: what it leaves behind and how it
\* ends ("continue", "break", or "return" with an error)
Iterate(d, p, t, narrow, delim) ==
    LET st == [how |-> "continue", pos |-> p, text |-> t, is_narrow |-> narrow,
               delimiter_keyword |-> delim, brk |-> "none", err |-> NoResult]
        byte == ReadU8(d, p)
        snd  == ReadU8(d, byte.pos)
        kw   == ReadBeU16(d, snd.pos)
        codepoint == byte.val * W8 + snd.val
        ch   == decode_codepoint(codepoint)
    IN  IF ~byte.ok THEN ReadFailed(st, byte.pos)
        ELSE IF ~snd.ok THEN ReadFailed(st, snd.pos)
        ELSE IF byte.val = 31 THEN
            CASE snd.val = 2 -> Skip(st, snd.pos)
              [] snd.val = 3 -> [st EXCEPT !.pos = snd.pos, !.how = "break",
                                          !.brk = "EndText"]
              [] snd.val = 4 -> [st EXCEPT !.pos = snd.pos, !.is_narrow = TRUE]
              [] snd.val = 5 -> [st EXCEPT !.pos = snd.pos, !.is_narrow = FALSE]
              [] snd.val = 10 -> [st EXCEPT !.pos = snd.pos,
                                           !.text = Append(t, Newline)]
              [] snd.val = 65 ->
                    IF ~kw.ok
                    THEN ReadFailed(st, kw.pos)
                    ELSE IF IsNextEntry(delim, kw.val)
                    THEN [st EXCEPT !.pos = kw.pos, !.how = "break",
                                    !.brk = "NextEntry"]
                    ELSE [st EXCEPT !.pos = kw.pos,
                                    !.delimiter_keyword = RecordKeyword(delim, kw.val)]
              [] snd.val = 97 -> Skip(st, snd.pos)
              [] OTHER -> [st EXCEPT !.how = "return", !.pos = snd.pos,
                                     !.err = ControlError(byte.val, snd.val)]
        ELSE IF ch # <<>>
        THEN [st EXCEPT !.pos = snd.pos,
                        !.text = PushChar(t, NarrowChar(narrow, ch[1]))]
        ELSE [st EXCEPT !.pos = snd.pos,
                        !.text = Append(t, CustomCharacter(codepoint))]

(***************************************************************************)
(* The explored containers.                                                *)
(***************************************************************************)
\* the header record: byte 1 is the entry count, byte 4 the availability flag
Header(n) == <<0, n, 0, 0, 1, 0, 0, 0, 0, 0, 0, 0, 0, 0, 0, 0>>

\* a 16-byte index record; bytes 11..15 are not read by the parser
Rec(id, pg, ln) == <<id, 0>> \o pg \o ln \o <<1, 0, 31, 3, 0, 0>>

RecChoices ==
    { Rec(id, pg, <<0, 0, 0, 3>>) : id \in {1, 2, 3},
                                    pg \in {<<0, 0, 0, 0>>, <<1, 2, 3, 4>>} }

Filler == Rec(3, <<0, 0, 0, 9>>, <<0, 0, 0, 1>>)

RECURSIVE Flatten(_)
Flatten(ss) == IF ss = <<>> THEN <<>> ELSE ss[1] \o Flatten(Tail(ss))

\* a table of n records: the first ones and the last one chosen freely
Table(n, free, last) ==
    Header(n) \o Flatten([k \in 1..n |->
        IF k <= Len(free) THEN free[k]
        ELSE IF k = n THEN last
        ELSE Filler])

\* the largest entry count explored (a u8: at most 255)
MaxIndices == 17

Min(a, b) == IF a < b THEN a ELSE b

IndexTables ==
    UNION { { Table(n, free, last) :
                free \in [1..Min(n, MaxFreeEntries) -> RecChoices],
                last \in IF n > MaxFreeEntries THEN RecChoices ELSE {Filler} } :
            n \in (0..MaxFreeEntries + 1) \cup {MaxIndices - 1, MaxIndices} }

\* short tables cut off inside the header or inside the last record
CutTables ==
    UNION { { SubSeq(c, 1, l) : l \in {0, 1, 4, Len(c) - 6, Len(c) - 15} } :
            c \in { c \in IndexTables : Len(c) <= 48 } }

\* tokens of the text language, and single bytes that shift token alignment
Chunks ==
    { <<31, 2>>, <<31, 3>>, <<31, 4>>, <<31, 5>>, <<31, 10>>, <<31, 97>>,
      <<31, 65, 0, 1>>, <<31, 65, 31, 3>>,
      <<35, 65>>, <<36, 44>>, <<255, 255>>, <<31>>, <<36>> }

ChunkSeqs == UNION { [1..n -> Chunks] : n \in 0..MaxChunks }

\* an empty index table followed by a text run at offset 16 of page 1
TextContainers == { Header(0) \o Flatten(cs) : cs \in ChunkSeqs }

Containers == IndexTables \cup CutTables \cup TextContainers

\* where the stream may stand when it is handed to from_io
StartPositions == {U32(0), U32(40)}

\* the arguments <<page, offset>> of the explored read_text calls
Calls == { <<U32(1), 16>>, <<U32(2), 65535>>, <<<<32, 1>>, 16>>,
           <<<<65535, 65535>>, 65535>> }

(***************************************************************************)
(* The state machine.                                                      *)
(***************************************************************************)
Init ==
    /\ data \in Containers
    /\ pos = U32(0)
    /\ pc = "closed"
    /\ n_indices = 0
    /\ i = 0
    /\ ics = NoIndices
    /\ indices = <<>>
    /\ page = U32(1)
    /\ offset = 0
    /\ started_at = U32(0)
    /\ text = <<>>
    /\ is_narrow = FALSE
    /\ delimiter_keyword = <<>>
    /\ brk = "none"
    /\ result = NoResult
    /\ elems_at = 0
    /\ out = <<>>

\* Subbook::from_io(io) is called with a stream on the container, the cursor
\* anywhere; a Subbook made earlier is dropped
FromIo(p) ==
    /\ pc \in {"closed", "open", "failed"}
    /\ pos' = p
    /\ pc' = "idx_header"
    /\ n_indices' = 0
    /\ i' = 0
    /\ ics' = NoIndices
    /\ page' = U32(1)
    /\ offset' = 0
    /\ started_at' = U32(0)
    /\ text' = <<>>
    /\ is_narrow' = FALSE
    /\ delimiter_keyword' = <<>>
    /\ brk' = "none"
    /\ result' = NoResult
    /\ UNCHANGED <<elems_at, out>>
    /\ UNCHANGED <<data, indices>>

\* Indices::read_from up to the loop: the count and the availability flag
IdxHeader ==
    /\ pc = "idx_header"
    /\ LET count == ReadU8(data, SeekCount(pos))
           global_avail == ReadU8(data, SeekGlobalAvail(count.pos))
       IN  IF ~count.ok
           THEN /\ pos' = count.pos
                /\ pc' = "failed"
                /\ result' = IoErr
                /\ UNCHANGED <<n_indices, i, ics>>
           ELSE IF ~global_avail.ok
           THEN /\ pos' = global_avail.pos
                /\ pc' = "failed"
                /\ result' = IoErr
                /\ UNCHANGED <<n_indices, i, ics>>
           ELSE /\ pos' = global_avail.pos
                /\ pc' = "idx_loop"
                /\ n_indices' = count.val
                /\ i' = 0
                /\ ics' = NoIndices
                /\ UNCHANGED result
    /\ UNCHANGED <<elems_at, out>>
    /\ UNCHANGED <<data, indices, page, offset, started_at, text, is_narrow,
                   delimiter_keyword, brk>>

\* the seek that opens pass i of the loop
IdxSeek ==
    /\ pc = "idx_loop"
    /\ i < n_indices
    /\ pos' = SeekEntry(pos, i)
    /\ pc' = "idx_read"
    /\ UNCHANGED <<elems_at, out>>
    /\ UNCHANGED <<data, n_indices, i, ics, indices, page, offset, started_at,
                   text, is_narrow, delimiter_keyword, brk, result>>

\* the rest of pass i: read the record and dispatch on its section id
IdxRead ==
    /\ pc = "idx_read"
    /\ LET e == ReadEntry(data, pos)
       IN  IF ~e.ok
           THEN /\ pos' = e.pos
                /\ pc' = "failed"
                /\ result' = IoErr
                /\ UNCHANGED <<i, ics>>
           ELSE /\ pos' = e.pos
                /\ pc' = "idx_loop"
                /\ ics' = Dispatch(ics, e.index_id, e.loc)
                /\ i' = i + 1
                /\ UNCHANGED result
    /\ UNCHANGED <<elems_at, out>>
    /\ UNCHANGED <<data, n_indices, indices, page, offset, started_at, text,
                   is_narrow, delimiter_keyword, brk>>

\* Ok(ics), and from_io builds the Subbook from it
IdxDone ==
    /\ pc = "idx_loop"
    /\ i = n_indices
    /\ result' = OkIndices(ics)
    /\ indices' = <<ics>>
    /\ pc' = "open"
    /\ UNCHANGED <<elems_at, out>>
    /\ UNCHANGED <<data, pos, n_indices, i, ics, page, offset, started_at, text,
                   is_narrow, delimiter_keyword, brk>>

\* Subbook::read_text(page, offset) up to the call of the decoder
ReadTextCall(pg, off) ==
    /\ pc = "open"
    /\ page' = pg
    /\ offset' = off
    /\ pos' = SeekText(pos, pg, off)
    /\ pc' = "rt_seeked"
    /\ result' = NoResult
    /\ brk' = "none"
    /\ UNCHANGED <<elems_at, out>>
    /\ UNCHANGED <<data, n_indices, i, ics, indices, started_at, text,
                   is_narrow, delimiter_keyword>>

\* read_text before the loop
DecodeBegin ==
    /\ pc = "rt_seeked"
    /\ text' = <<>>
    /\ started_at' = pos
    /\ is_narrow' = FALSE
    /\ delimiter_keyword' = <<>>
    /\ pc' = "rt_loop"
    /\ UNCHANGED <<elems_at, out>>
    /\ UNCHANGED <<data, pos, n_indices, i, ics, indices, page, offset, brk,
                   result>>

\* one pass of the loop; when the pass ends the call, the return: the
\* locals of read_text are gone, the result and the cursor stay
DecodeStep ==
    /\ pc = "rt_loop"
    /\ LET st == Iterate(data, pos, text, is_narrow, delimiter_keyword)
       IN  /\ pos' = st.pos
           /\ brk' = st.brk
           /\ IF st.how = "continue"
              THEN /\ pc' = "rt_loop"
                   /\ text' = st.text
                   /\ is_narrow' = st.is_narrow
                   /\ delimiter_keyword' = st.delimiter_keyword
                   /\ UNCHANGED <<started_at, result>>
              ELSE /\ pc' = "open"
                   /\ result' = IF st.how = "break" THEN OkText(st.text) ELSE st.err
                   /\ text' = <<>>
                   /\ is_narrow' = FALSE
                   /\ delimiter_keyword' = <<>>
                   /\ started_at' = U32(0)
    /\ UNCHANGED <<elems_at, out>>
    /\ UNCHANGED <<data, n_indices, i, ics, indices, page, offset>>

Next ==
    \/ \E p \in StartPositions : FromIo(p)
    \/ IdxHeader
    \/ IdxSeek
    \/ IdxRead
    \/ IdxDone
    \/ \E c \in Calls : ReadTextCall(c[1], c[2])
    \/ DecodeBegin
    \/ DecodeStep

Spec == Init /\ [][Next]_vars

(***************************************************************************)
(* Text::to_plaintext, applied to any Text.                                *)
(***************************************************************************)
\* elements of a generated Text
MaxElems == 3

\* the elements a Text is drawn from: strings (one holding a line break of
\* its own), an unresolved code, a Newline
Elems ==
    { UnicodeString(<<65>>), UnicodeString(<<12354, 10>>),
      CustomCharacter(65535), Newline }

Texts == UNION { [1..n -> Elems] : n \in 0..MaxElems }

\* Emit with a placeholder for a CustomCharacter
EmitCustomShown(o, elem) ==
    CASE elem.tag = "UnicodeString" -> o \o elem.s
      [] elem.tag = "CustomCharacter" -> Append(o, 63)
      [] OTHER -> Append(o, 10)

\* match *elem { UnicodeString(ref s) => out.push_str(s),
\*               CustomCharacter(cp) => (), Newline => out.push('\n') }
Emit(o, elem) ==
    CASE elem.tag = "UnicodeString" -> o \o elem.s
      [] elem.tag = "CustomCharacter" -> o
      [] OTHER -> Append(o, 10)

InitText ==
    /\ data = <<>>
    /\ pos = U32(0)
    /\ pc = "tp_call"
    /\ n_indices = 0
    /\ i = 0
    /\ ics = NoIndices
    /\ indices = <<>>
    /\ page = U32(1)
    /\ offset = 0
    /\ started_at = U32(0)
    /\ text \in Texts
    /\ is_narrow = FALSE
    /\ delimiter_keyword = <<>>
    /\ brk = "none"
    /\ result = NoResult
    /\ elems_at = 0
    /\ out = <<>>

\* let mut out = String::new(); elems.iter()
ToPlaintextBegin ==
    /\ pc = "tp_call"
    /\ out' = <<>>
    /\ elems_at' = 0
    /\ pc' = "tp_loop"
    /\ UNCHANGED <<data, pos, n_indices, i, ics, indices, page, offset,
                   started_at, text, is_narrow, delimiter_keyword, brk, result>>

\* one pass of the for loop
ToPlaintextStep ==
    /\ pc = "tp_loop"
    /\ elems_at < Len(text)
    /\ out' = Emit(out, text[elems_at + 1])
    /\ elems_at' = elems_at + 1
    /\ UNCHANGED <<data, pos, pc, n_indices, i, ics, indices, page, offset,
                   started_at, text, is_narrow, delimiter_keyword, brk, result>>

\* the iterator is exhausted: out is returned
ToPlaintextReturn ==
    /\ pc = "tp_loop"
    /\ elems_at = Len(text)
    /\ pc' = "tp_done"
    /\ UNCHANGED <<data, pos, n_indices, i, ics, indices, page, offset,
                   started_at, text, is_narrow, delimiter_keyword, brk, result,
                   elems_at, out>>

NextText == ToPlaintextBegin \/ ToPlaintextStep \/ ToPlaintextReturn

SpecText == InitText /\ [][NextText]_vars

(***************************************************************************)
(* Properties.                                                             *)
(***************************************************************************)
\* byte k (from 1) of the stream counted from cursor p; needs Avail(d, p) >= k
At(d, p, k) == d[p[2] + k]

\* (page - 1) * 2048 + offset over the naturals, page >= 1, as limbs whose
\* high limb is not cut at 16 bits
ExactTextPosition(pg, off) ==
    LET q == U32Dec(pg)
    IN  <<q[1] * 2048 + (q[2] * 2048 + off) \div W16, (q[2] * 2048 + off) % W16>>

\* C1: when Subbook::read_text(page, offset) hands the stream to the decoder,
\* the cursor is at exactly (page - 1) * 2048 + offset, for every page >= 1.
C1_SeekExact ==
    (pc = "rt_seeked" /\ page # <<0, 0>>) => pos = ExactTextPosition(page, offset)

\* C2: the record of entry i is read from absolute offset 16 + i * 16, for every
\* i below the count byte.
C2_RecordOffset ==
    pc = "idx_read" => pos = U32(16 + i * 16)

NoAdjacentStrings(t) ==
    \A k \in 1..(Len(t) - 1) :
        ~(t[k].tag = "UnicodeString" /\ t[k + 1].tag = "UnicodeString")

\* C3: the element sequence never holds two consecutive UnicodeString elements,
\* neither while it is accumulated nor in a returned Text.
C3_NoAdjacentStrings ==
    NoAdjacentStrings(text) /\ NoAdjacentStrings(result.text)

\* two characters decoded after an unresolved code were coalesced into one
\* string behind its CustomCharacter
C3_Witness ==
    /\ pc = "rt_loop"
    /\ Len(text) = 2
    /\ text[1].tag = "CustomCharacter"
    /\ text[2].tag = "UnicodeString"
    /\ Len(text[2].s) = 2

ValidControlCodes == {2, 3, 4, 5, 10, 65, 97}

\* C4: a pass that reads the escape marker and then a byte outside the seven
\* control codes ends the call with InvalidControlCode carrying that byte,
\* whatever was accumulated.
C4_InvalidControlCode ==
    [][ ( /\ pc = "rt_loop"
          /\ Avail(data, pos) >= 2
          /\ At(data, pos, 1) = 31
          /\ At(data, pos, 2) \notin ValidControlCodes )
        => ( /\ pc' = "open"
             /\ result' = InvalidControlCode(At(data, pos, 2)) ) ]_vars

\* the call ended with InvalidControlCode(0xff) after an earlier token
C4_Witness ==
    /\ pc = "open"
    /\ result.kind = "InvalidControlCode"
    /\ result.code = 255
    /\ pos = PosAdd(TextPosition(page, offset), 4)

\* C5: a pass that reads Begin Keyword with the code held in delimiter_keyword
\* ends the call with Ok of exactly the elements accumulated so far, the cursor
\* just past the keyword code.
C5_StopAtRepeatedKeyword ==
    [][ ( /\ pc = "rt_loop"
          /\ Avail(data, pos) >= 4
          /\ At(data, pos, 1) = 31
          /\ At(data, pos, 2) = 65
          /\ delimiter_keyword = <<At(data, pos, 3) * W8 + At(data, pos, 4)>> )
        => ( /\ pc' = "open"
             /\ result' = OkText(text)
             /\ brk' = "NextEntry"
             /\ pos' = PosAdd(pos, 4) ) ]_vars

\* the call stopped at a repeated keyword and returned a non-empty Text
C5_Witness ==
    /\ pc = "open"
    /\ brk = "NextEntry"
    /\ result.kind = "Text"
    /\ result.text # <<>>

\* the token at the cursor cannot be read in full
EndOfStreamAhead ==
    \/ Avail(data, pos) < 2
    \/ /\ Avail(data, pos) < 4
       /\ At(data, pos, 1) = 31
       /\ At(data, pos, 2) = 65

\* the bytes just before cursor p are End Text, or a Begin Keyword
EndsWithEndText(d, p) ==
    p[1] = 0 /\ p[2] >= 2 /\ p[2] <= Len(d) /\ d[p[2] - 1] = 31 /\ d[p[2]] = 3
EndsWithKeyword(d, p) ==
    p[1] = 0 /\ p[2] >= 4 /\ p[2] <= Len(d) /\ d[p[2] - 3] = 31 /\ d[p[2] - 2] = 65

LocsOf(x) == { x.menu[k] : k \in 1..Len(x.menu) }
             \cup { x.copyright[k] : k \in 1..Len(x.copyright) }

\* C7: every IndexLocation of a returned Indices has page >= 1.
C7_PagePositive ==
    result.kind = "Indices" => \A loc \in LocsOf(result.ics) : loc.page # <<0, 0>>

\* the location the layout gives entry k of container d
LayoutLoc(d, k) ==
    [page   |-> <<d[16 + 16 * k + 3] * W8 + d[16 + 16 * k + 4],
                  d[16 + 16 * k + 5] * W8 + d[16 + 16 * k + 6]>>,
     length |-> <<d[16 + 16 * k + 7] * W8 + d[16 + 16 * k + 8],
                  d[16 + 16 * k + 9] * W8 + d[16 + 16 * k + 10]>>]

\* the entries below the count byte whose section id is id
EntriesWithId(d, id) == { k \in 0..(d[2] - 1) : d[16 + 16 * k + 1] = id }

Highest(S) == CHOOSE k \in S : \A m \in S : m <= k

\* the optional location the layout gives section id
LayoutSection(d, id) ==
    IF EntriesWithId(d, id) = {} THEN <<>>
    ELSE <<LayoutLoc(d, Highest(EntriesWithId(d, id)))>>

\* C8: after a successful parse menu (copyright) is the location of the
\* highest-indexed entry below the count whose id is 0x01 (0x02), and is absent
\* when there is none.
C8_LastEntryWins ==
    result.kind = "Indices"
    => /\ result.ics.menu = LayoutSection(data, 1)
       /\ result.ics.copyright = LayoutSection(data, 2)

\* C9: processing a record leaves the field its id does not name unchanged;
\* a record with any id other than 0x01, 0x02 changes neither and raises no
\* error.
C9_DispatchFrame ==
    [][ (pc = "idx_read" /\ Avail(data, pos) >= 11)
        => ( /\ At(data, pos, 1) \notin {1, 2}
                => (ics' = ics /\ pc' = "idx_loop" /\ result' = result)
             /\ At(data, pos, 1) = 1 => ics'.copyright = ics.copyright
             /\ At(data, pos, 1) = 2 => ics'.menu = ics.menu ) ]_vars

\* a record with id 0x03 was processed while menu and copyright were both set
C9_Witness ==
    /\ pc = "idx_loop"
    /\ i = 3
    /\ data[16 + 32 + 1] = 3
    /\ ics.menu # <<>>
    /\ ics.copyright # <<>>

\* C10: a parse of a container that was parsed before, started with the cursor
\* anywhere, succeeds again and yields the same Indices.
C10_ReparseSame ==
    [][ (pc \in {"idx_header", "idx_loop", "idx_read"} /\ indices # <<>>)
        => ( /\ pc' # "failed"
             /\ pc' = "open" => indices' = indices ) ]_vars

\* a second parse has rebuilt both locations of the Subbook made by the first
C10_Witness ==
    /\ pc = "idx_loop"
    /\ i = n_indices
    /\ indices # <<>>
    /\ ics.menu # <<>>
    /\ ics.copyright # <<>>
    /\ ics = indices[1]

\* what one call of the decoder returns when it starts at cursor p with the
\* locals t, narrow, delim: the passes of the loop, one after the other
RECURSIVE DecodeFrom(_, _, _, _, _)
DecodeFrom(d, p, t, narrow, delim) ==
    LET st == Iterate(d, p, t, narrow, delim)
    IN  IF st.how = "continue"
        THEN DecodeFrom(d, st.pos, st.text, st.is_narrow, st.delimiter_keyword)
        ELSE IF st.how = "break" THEN OkText(st.text) ELSE st.err

\* C11: whatever calls came before, what read_text(page, offset) returns is
\* the decode of the container's bytes from the seek target with is_narrow
\* false and delimiter_keyword unset; the locals start so in every call.
C11_CallsIndependent ==
    /\ (pc = "open" /\ result.kind \in {"Text", "Io", "InvalidControlCode"})
       => result = DecodeFrom(data, TextPosition(page, offset), <<>>, FALSE, <<>>)
    /\ (pc = "rt_loop" /\ pos = started_at)
       => (text = <<>> /\ ~is_narrow /\ delimiter_keyword = <<>>)

\* a call returned a Text whose character was narrowed, so the call had
\* switched to narrow mode itself
C11_Witness ==
    /\ pc = "open"
    /\ result.kind = "Text"
    /\ result.text = <<UnicodeString(<<65>>)>>

\* the offset just past the first terminator met when the bytes of d from
\* offset k on are cut into tokens (escape sequences of 2 bytes, Begin
\* Keyword of 4, character codes of 2), delim being the first keyword code
\* seen so far; -1 when an unknown escape or the end of d comes first
RECURSIVE TerminatorEnd(_, _, _)
TerminatorEnd(d, k, delim) ==
    IF k + 2 > Len(d) THEN -1
    ELSE IF d[k + 1] # 31 THEN TerminatorEnd(d, k + 2, delim)
    ELSE IF d[k + 2] = 3 THEN k + 2
    ELSE IF d[k + 2] \in {2, 4, 5, 10, 97} THEN TerminatorEnd(d, k + 2, delim)
    ELSE IF d[k + 2] # 65 \/ k + 4 > Len(d) THEN -1
    ELSE IF delim = <<d[k + 3] * W8 + d[k + 4]>> THEN k + 4
    ELSE TerminatorEnd(d, k + 4,
                       IF delim = <<>> THEN <<d[k + 3] * W8 + d[k + 4]>> ELSE delim)

\* C12: when a call returns a Text the cursor is just past the first
\* terminator of the token sequence that starts at the seek target: the start
\* plus the bytes of the tokens up to and including End Text or the repeated
\* Begin Keyword, and not a byte further.
C12_CursorPastTerminator ==
    (pc = "open" /\ result.kind = "Text")
    => /\ TextPosition(page, offset)[1] = 0
       /\ pos = U32(TerminatorEnd(data, TextPosition(page, offset)[2], <<>>))

\* a call returned at End Text after an earlier token, bytes left unread
\* behind the terminator
C12_Witness ==
    /\ pc = "open"
    /\ result.kind = "Text"
    /\ brk = "EndText"
    /\ pos[2] > 18
    /\ Avail(data, pos) >= 2

Contribution(elem) ==
    CASE elem.tag = "UnicodeString" -> elem.s
      [] elem.tag = "Newline" -> <<10>>
      [] OTHER -> <<>>

RECURSIVE Plain(_)
Plain(t) == IF t = <<>> THEN <<>> ELSE Contribution(t[1]) \o Plain(Tail(t))

RECURSIVE StringChars(_)
StringChars(t) ==
    IF t = <<>> THEN 0
    ELSE (IF t[1].tag = "UnicodeString" THEN Len(t[1].s) ELSE 0) + StringChars(Tail(t))

NumNewlines(t) == Cardinality({ k \in 1..Len(t) : t[k].tag = "Newline" })

\* C14: to_plaintext comes to an end for every Text and returns the strings'
\* contents and one line break per Newline, in sequence order, nothing for a
\* CustomCharacter; it adds exactly as many line breaks as there are Newlines.
C14_Plaintext ==
    /\ pc \in {"tp_call", "tp_loop"} => ENABLED NextText
    /\ pc = "tp_done"
       => /\ out = Plain(text)
          /\ Len(out) = StringChars(text) + NumNewlines(text)

\* a Text holding a string, an unresolved code and a Newline was rendered
C14_Witness ==
    /\ pc = "tp_done"
    /\ text = <<UnicodeString(<<65>>), CustomCharacter(65535), Newline>>
    /\ out = <<65, 10>>

\* the token at the cursor is a whole Begin Keyword
BeginKeywordAhead ==
    /\ Avail(data, pos) >= 4
    /\ At(data, pos, 1) = 31
    /\ At(data, pos, 2) = 65

KeywordAhead == At(data, pos, 3) * W8 + At(data, pos, 4)

\* C15: within one call delimiter_keyword starts unset, stays unset until a
\* Begin Keyword is read, takes that first keyword's code and never changes
\* afterwards; a Begin Keyword with another code neither stops the loop nor
\* overwrites it.
C15_DelimiterWrittenOnce ==
    /\ [][ pc = "rt_seeked" => delimiter_keyword' = <<>> ]_vars
    /\ [][ (pc = "rt_loop" /\ pc' = "rt_loop")
           => /\ delimiter_keyword # <<>> => delimiter_keyword' = delimiter_keyword
              /\ (delimiter_keyword = <<>> /\ ~BeginKeywordAhead)
                 => delimiter_keyword' = <<>>
              /\ (delimiter_keyword = <<>> /\ BeginKeywordAhead)
                 => delimiter_keyword' = <<KeywordAhead>> ]_vars
    /\ [][ ( /\ pc = "rt_loop"
             /\ BeginKeywordAhead
             /\ delimiter_keyword # <<>>
             /\ delimiter_keyword # <<KeywordAhead>> )
           => ( /\ pc' = "rt_loop"
                /\ delimiter_keyword' = delimiter_keyword
                /\ pos' = PosAdd(pos, 4) ) ]_vars

\* keyword 1 was recorded, then keyword 0x1f03 was read twice and the loop
\* still runs with the first keyword as the delimiter
C15_Witness ==
    /\ pc = "rt_loop"
    /\ delimiter_keyword = <<1>>
    /\ started_at = U32(16)
    /\ pos = U32(28)
    /\ SubSeq(data, 17, 28) = <<31, 65, 0, 1, 31, 65, 31, 3, 31, 65, 31, 3>>

\* the token at the cursor is a whole two-byte character code
CharacterAhead == Avail(data, pos) >= 2 /\ At(data, pos, 1) # 31

CodeAhead == At(data, pos, 1) * W8 + At(data, pos, 2)

\* C16: an unresolved code appends CustomCharacter with the raw 16-bit code; a
\* resolvable character decoded right after a CustomCharacter or a Newline
\* opens a new one-character UnicodeString and leaves every earlier element as
\* it was.
C16_CustomBreaksCoalescing ==
    [][ (pc = "rt_loop" /\ CharacterAhead)
        => /\ decode_codepoint(CodeAhead) = <<>>
              => ( /\ pc' = "rt_loop"
                   /\ text' = Append(text, CustomCharacter(CodeAhead)) )
           /\ ( /\ decode_codepoint(CodeAhead) # <<>>
                /\ text # <<>>
                /\ text[Len(text)].tag \in {"CustomCharacter", "Newline"} )
              => ( /\ pc' = "rt_loop"
                   /\ Len(text') = Len(text) + 1
                   /\ SubSeq(text', 1, Len(text)) = text
                   /\ text'[Len(text')].tag = "UnicodeString"
                   /\ Len(text'[Len(text')].s) = 1 ) ]_vars

\* a string, then CustomCharacter(0xffff), then a new string of one character
C16_Witness ==
    /\ pc = "rt_loop"
    /\ Len(text) = 3
    /\ text[1].tag = "UnicodeString"
    /\ text[2] = CustomCharacter(65535)
    /\ text[3].tag = "UnicodeString"
    /\ Len(text[3].s) = 1

\* the scalars of the strings of a text, in order
RECURSIVE Scalars(_)
Scalars(t) ==
    IF t = <<>> THEN <<>>
    ELSE (IF t[1].tag = "UnicodeString" THEN t[1].s ELSE <<>>) \o Scalars(Tail(t))

\* the token at the cursor is the control sequence with code cc
ControlAhead(cc) ==
    Avail(data, pos) >= 2 /\ At(data, pos, 1) = 31 /\ At(data, pos, 2) = cc

Remaining(d, p) == IF p[1] = 0 /\ p[2] <= Len(d) THEN Len(d) - p[2] ELSE 0

\* tokens of a text run whose call is followed to its end
MaxRunChunks == 3

\* a Begin Keyword (twice: a stop), a character, a lone escape marker
RunChunks == { <<31, 65, 0, 1>>, <<35, 65>>, <<31>> }

RunContainers ==
    { Header(0) \o Flatten(cs) :
        cs \in UNION { [1..n -> RunChunks] : n \in 0..MaxRunChunks } }

\* one call of read_text(1, 16) on an opened Subbook, taken from the seek on
InitDecode ==
    /\ data \in RunContainers
    /\ pos = TextPosition(U32(1), 16)
    /\ pc = "rt_seeked"
    /\ n_indices = 0
    /\ i = 0
    /\ ics = NoIndices
    /\ indices = <<NoIndices>>
    /\ page = U32(1)
    /\ offset = 16
    /\ started_at = U32(0)
    /\ text = <<>>
    /\ is_narrow = FALSE
    /\ delimiter_keyword = <<>>
    /\ brk = "none"
    /\ result = NoResult
    /\ elems_at = 0
    /\ out = <<>>

NextDecode == DecodeBegin \/ DecodeStep

\* the decoder runs on its caller's thread until it returns
SpecDecode == InitDecode /\ [][NextDecode]_vars /\ WF_vars(NextDecode)

\* C18: every call of the decoder returns, with a Text or an error; every pass
\* of its loop either ends the call or moves the cursor at least two bytes
\* forward inside the stream, so a call makes at most half as many passes as
\* bytes were left at its start.
C18_Terminates ==
    /\ <>(pc = "open" /\ result.kind \in {"Text", "Io", "InvalidControlCode"})
    /\ [][ pc = "rt_loop"
           => \/ pc' = "open"
              \/ /\ pc' = "rt_loop"
                 /\ Remaining(data, pos) >= 2
                 /\ Remaining(data, pos') <= Remaining(data, pos) - 2 ]_vars

\* a call from offset 16 that has made three two-byte passes and goes on
C18_Witness ==
    /\ pc = "rt_loop"
    /\ started_at = U32(16)
    /\ pos = U32(22)
    /\ Remaining(data, pos) = 0

\* the token at the cursor is a control sequence that emits no element and
\* does not end the call
SilentControlAhead ==
    \/ ControlAhead(2)
    \/ ControlAhead(4)
    \/ ControlAhead(5)
    \/ ControlAhead(97)
    \/ BeginKeywordAhead /\ delimiter_keyword # <<KeywordAhead>>

\* C19: a control sequence that emits no element leaves the text as it is and
\* the loop running, and a resolvable character decoded while the last element
\* is a UnicodeString joins that string whatever token came before it; so two
\* characters with only such control sequences between them share a string.
C19_SilentCodesKeepCoalescing ==
    /\ [][ (pc = "rt_loop" /\ SilentControlAhead)
           => (pc' = "rt_loop" /\ text' = text) ]_vars
    /\ [][ ( /\ pc = "rt_loop"
             /\ CharacterAhead
             /\ decode_codepoint(CodeAhead) # <<>>
             /\ text # <<>>
             /\ text[Len(text)].tag = "UnicodeString" )
           => ( /\ pc' = "rt_loop"
                /\ Len(text') = Len(text)
                /\ SubSeq(text', 1, Len(text) - 1) = SubSeq(text, 1, Len(text) - 1)
                /\ text'[Len(text)].tag = "UnicodeString"
                /\ Len(text'[Len(text)].s) = Len(text[Len(text)].s) + 1
                /\ SubSeq(text'[Len(text)].s, 1, Len(text[Len(text)].s))
                      = text[Len(text)].s ) ]_vars

\* a character, End Keyword, a character: one string of two characters
C19_Witness ==
    /\ pc = "rt_loop"
    /\ started_at = U32(16)
    /\ pos = U32(22)
    /\ SubSeq(data, 17, 22) = <<35, 65, 31, 97, 35, 65>>
    /\ Len(text) = 1
    /\ text[1].tag = "UnicodeString"
    /\ Len(text[1].s) = 2

\* C20: the escape marker counts only as the first byte of a token.  A token
\* that starts with another byte takes exactly two bytes and the loop goes on,
\* whatever the second byte is; a Begin Keyword takes exactly four bytes and its
\* two code bytes are read as the keyword, never as a control sequence: the
\* call can end there only as the stop at a repeated keyword.
C20_MarkerOnlyAtTokenStart ==
    /\ [][ (pc = "rt_loop" /\ CharacterAhead)
           => ( /\ pc' = "rt_loop"
                /\ pos' = PosAdd(pos, 2)
                /\ Scalars(text') # Scalars(text) \/ Len(text') = Len(text) + 1 ) ]_vars
    /\ [][ (pc = "rt_loop" /\ BeginKeywordAhead)
           => ( /\ pos' = PosAdd(pos, 4)
                /\ pc' = "rt_loop" \/ delimiter_keyword = <<KeywordAhead>>
                /\ pc' = "rt_loop"
                   => (text' = text /\ delimiter_keyword' # <<>>)
                /\ pc' = "open"
                   => (brk' = "NextEntry" /\ result' = OkText(text)) ) ]_vars

\* the bytes 24 1f 03 were read as code 0x241f and the loop runs on behind
\* them, and before that the keyword 1f 03 was recorded
C20_Witness ==
    /\ pc = "rt_loop"
    /\ started_at = U32(16)
    /\ pos = U32(22)
    /\ Len(data) = 22
    /\ SubSeq(data, 17, 22) = <<31, 65, 31, 3, 36, 31>>
    /\ delimiter_keyword = <<7939>>
    /\ text = <<CustomCharacter(9247)>>

====
